---- MODULE Spec2Model ----
(***************************************************************************)
(* A model of the catalogue toolkit's core: the catalogue merge engine of *)
(* eqcat/isf_catalogue.py (ISFCatalogue.merge_second_catalogue and the    *)
(* methods it calls) and the ISF block reader of                          *)
(* eqcat/parsers/isf_catalogue_reader.py (ISFReader); and of the year     *)
(* splitting of eqcat/isc_downloader.py (ISCBulletinUrl.GetCatalogue).    *)
(*                                                                         *)
(* Magnitude values are decimal numbers given as integers in units of     *)
(* 1e-4 magnitude units, so the tolerance 0.001 of compare_magnitude is   *)
(* 10.  The program holds them as binary64 floats; where the rounding of  *)
(* a float decides (two values 0.001 apart), the model computes it.       *)
(***************************************************************************)
EXTENDS Integers, Sequences, FiniteSets, TLC

VARIABLES
    heap,       \* the object graph of the two catalogues A and B:
                \*   heap.cat[c]  the `events` list of catalogue c (event refs)
                \*   heap.ev[e]   Event object: id, origins (list of origin
                \*                refs), magnitudes (list of Magnitude)
                \*   heap.org[o]  Origin object: id, magnitudes (a ref of a
                \*                list object: two origins may share one list)
                \*   heap.ml[l]   a list object holding Magnitude records
    pre,        \* the object graph as it was when the last merge was called
    status,     \* how the last merge ended: "ok", "ValueError", "diverged"
    nmerges,    \* number of merge_second_catalogue calls made so far
    \* ISFReader and one call of its read_file
    family,     \* the family of input files this run draws its lines from
    args,       \* the arguments the reader was constructed with
    reader,     \* the fields of the ISFReader object (self)
    pc,         \* "constructed", "reading", "done", or the exception raised
    counter,    \* locals of read_file: number of Event headers read
    is_origin,
    is_magnitude,
    comment_str,
    event,      \* event, origins and magnitudes are unbound names until the
    origins,    \* first Event header is read, that is while counter = 0
    magnitudes,
    used        \* what the file has held so far: the rows appended to
                \* origins, magnitudes, comment_str; the kinds of row an
                \* allow-list has filtered out; whether the line just read
                \* was an origin row that was filtered out; whether it was
                \* an Event header; the length of the line just read if
                \* it was dropped; the ids of the Event headers, in
                \* order; the number of read_file calls made so far
VARIABLES
    \* ISCBulletinUrl and one call of its GetCatalogue
    Request,    \* self.Request: the fields "StartYear" and "EndYear"
    SplitYears, \* the argument of GetCatalogue
    StartYear,  \* locals of GetCatalogue
    EndYear,
    SY,         \* the next value of range(StartYear, EndYear, SplitYears)
    CatBlock,   \* the chunks put together so far, each given by the
                \* period <<start year, end year>> it was requested for
    dpc         \* "idle", "called", "loop" or "written"

mergeVars == <<heap, pre, status, nmerges>>

locals == <<counter, is_origin, is_magnitude, comment_str, event, origins,
            magnitudes, used>>

readVars == <<family, args, reader, pc, locals>>

downloadVars == <<Request, SplitYears, StartYear, EndYear, SY, CatBlock, dpc>>

vars == <<mergeVars, readVars, downloadVars>>

----------------------------------------------------------------------------
(* Bounds of the model.                                                    *)

MaxMags == 2        \* magnitudes of an origin in an input catalogue
MaxOrigins == 2     \* origins of an event in an input catalogue
MaxEvents == 2      \* events of an input catalogue
MaxMerges == 2      \* calls of merge_second_catalogue in one run
MaxHeaders == 2         \* Event header lines of a file
MaxOriginRows == 3      \* origin rows of a file that yield an origin
MaxMagnitudeRows == 2   \* magnitude rows of a file that yield a magnitude
MaxCommentRows == 1     \* comment lines of a file
MaxReads == 2           \* calls of read_file on one reader
MaxSpan == 4            \* years from the first year to the last one asked
MaxSplit == 3           \* the SplitYears argument

(* The literal 0.001 of compare_magnitude, in units of 1e-4.               *)
Tol == 10

----------------------------------------------------------------------------
(* Sequences.                                                              *)

SeqsUpTo(S, n) == UNION {[1..k -> S] : k \in 0..n}

Range(s) == {s[k] : k \in 1..Len(s)}

(* list.index(x): the first position holding x.                            *)
Index(s, x) == CHOOSE k \in 1..Len(s) : s[k] = x /\ \A j \in 1..(k - 1) : s[j] # x

RECURSIVE Flatten(_)
Flatten(ss) == IF ss = <<>> THEN <<>> ELSE Head(ss) \o Flatten(Tail(ss))

Fabs(x) == IF x < 0 THEN -x ELSE x

(* An optional value (None or a number or a string) is <<>> or <<x>>.      *)
None == <<>>
Some(n) == <<n>>

Max(a, b) == IF a >= b THEN a ELSE b

----------------------------------------------------------------------------
(* Binary floating point.  A magnitude value k (in units of 1e-4) is held  *)
(* as float(k / 10^4), the binary64 number nearest to it, which is         *)
(* k / 10^4 + RoundErr(k, u) * 2^-u / 10^4 for u = UlpExp(k).  Values are  *)
(* less than 128 in size.                                                  *)

(* 2^n modulo m for 40 <= n <= 70 and m <= 10^4, by 2^n = 2^20 2^20        *)
(* 2^(n - 40): no product is more than 10^8.                               *)
PowMod(n, m) == ((((2^20 % m) * (2^20 % m)) % m) * (2^(n - 40) % m)) % m

(* The binary exponent of k / 10^4 for 0 < k < 1280000: the e with         *)
(* 2^e <= k / 10^4 < 2^(e + 1).                                            *)
NormExp(k) ==
    CHOOSE e \in -14..6 :
        IF e >= 0
        THEN 10000 * 2^e <= k /\ k < 20000 * 2^e
        ELSE k < 10000 /\ 10000 <= k * 2^(-e) /\ k * 2^(-e) < 20000

(* The spacing of the floats around k / 10^4 is 2^-UlpExp(k): a float has  *)
(* 53 significant bits.                                                    *)
UlpExp(k) == IF k = 0 THEN 63 ELSE 52 - NormExp(Fabs(k))

(* The rounding to the nearest integer of a number with the fraction       *)
(* f / 10^4 adds this many 10^-4 (f is never 5000 here).                   *)
ToNearest(f) == IF f < 5000 THEN -f ELSE 10000 - f

(* float(k / 10^4) - k / 10^4 in units of 2^-u / 10^4, u = UlpExp(k): the  *)
(* fraction of Fabs(k) * 2^u / 10^4 is rounded to the nearest integer.     *)
RoundErr(k, u) ==
    (IF k < 0 THEN -1 ELSE 1)
        * ToNearest(((Fabs(k) % 10000) * PowMod(u, 10000)) % 10000)

(* float(0.001) - 0.001 in units of 2^-62 / 10^4: the fraction of          *)
(* 2^62 / 10^3 is more than one half.                                      *)
TolErr == 10 * (1000 - PowMod(62, 1000))

(* The floats of two values 0.001 apart, hi the greater, with rounding     *)
(* errors eh and el in units of 2^-uh / 10^4 and of 2^-ul / 10^4, differ   *)
(* by 0.001 + (eh - el); float(0.001) is 0.001 + TolErr.  In units of      *)
(* 2^-s / 10^4, s >= 63: the subtraction rounds the difference to a        *)
(* multiple of 2^-62, ties to the even neighbour, which float(0.001) is,   *)
(* so the result is greater than float(0.001) exactly when the difference  *)
(* exceeds it by more than half of 2^-62.                                  *)
ExceedsScaled(eh, el, uh, ul, s) ==
    eh * 2^(s - uh) - el * 2^(s - ul) - TolErr * 2^(s - 62)
        > 10000 * 2^(s - 63)

ExceedsAt(hi, lo, uh, ul) ==
    ExceedsScaled(RoundErr(hi, uh), RoundErr(lo, ul), uh, ul,
                  Max(Max(uh, ul), 63))

(* fabs(x - y) > 0.001 for the floats of x and y.  Two values that are not *)
(* 0.001 apart are so far from the boundary that no rounding matters.      *)
ExceedsTol(x, y) ==
    IF Fabs(x - y) # Tol
    THEN Fabs(x - y) > Tol
    ELSE ExceedsAt(Max(x, y), Max(x, y) - Tol,
                   UlpExp(Max(x, y)), UlpExp(Max(x, y) - Tol))

---------
(* isf_catalogue.Magnitude                                                 *)

(* Magnitude.__init__(event_id, origin_id, value, author, scale): the new  *)
(* Magnitude (event id, sigma and station count left out), or the          *)
(* ValueError that "{:.2f}".format(self.value) raises for the value None.  *)
(* `value` is None or Some(v); `scale` is None or Some(s), s a string that *)
(* may be empty; a scale that is not true becomes "UK".                    *)
Magnitude(origin_id, value, author, scale) ==
    IF value = None
    THEN [raised |-> "ValueError"]
    ELSE [origin_id |-> origin_id, value |-> value[1], author |-> author,
          scale |-> IF scale # None /\ scale[1] # ""
                    THEN scale[1] ELSE "UK"]

SameMetadata(self, magnitude) ==
    /\ magnitude.origin_id = self.origin_id
    /\ magnitude.author = self.author
    /\ magnitude.scale = self.scale

(* compare_magnitude that reports a conflict as "no match" instead of      *)
(* raising.                                                                *)
CompareMagnitudeSilent(self, magnitude) ==
    IF SameMetadata(self, magnitude)
    THEN IF ExceedsTol(magnitude.value, self.value) THEN "False" ELSE "True"
    ELSE "False"

(* Magnitude.compare_magnitude: "True", "False", or "ValueError" when it   *)
(* raises.                                                                 *)
CompareMagnitude(self, magnitude) ==
    IF SameMetadata(self, magnitude)
    THEN IF ExceedsTol(magnitude.value, self.value)
         THEN "ValueError"
         ELSE "True"
    ELSE "False"

----------------------------------------------------------------------------
(* isf_catalogue.Origin                                                    *)

GetNumberMagnitudes(h, self) == Len(h.ml[h.org[self].magnitudes])

(* The inner loop of merge_secondary_magnitudes:                           *)
(*     for magnitude2 in self.magnitudes:                                  *)
(*         has_magnitude = magnitude2.compare_magnitude(magnitude1)        *)
(* has_magnitude is overwritten by every comparison; a raise ends it.      *)
RECURSIVE CompareLoop(_, _, _, _)
CompareLoop(list, magnitude1, k, has_magnitude) ==
    IF k > Len(list)
    THEN has_magnitude
    ELSE LET r == CompareMagnitude(list[k], magnitude1)
         IN  IF r = "ValueError"
             THEN "ValueError"
             ELSE CompareLoop(list, magnitude1, k + 1, r)

(* The outer loop of merge_secondary_magnitudes, `for magnitude1 in        *)
(* magnitudes`, from its i-th iteration on.  The loop reads the list       *)
(* object `incoming` by position while the body appends to                 *)
(* self.magnitudes.  When both are the same list object the loop length    *)
(* grows with every append; n0 is the length of the list when the loop     *)
(* started.  In that case every element appended is compared, when its     *)
(* turn comes, with a last element of another key (it was appended because *)
(* the then-last element had another key, and it has been the last or been *)
(* followed by appended ones ever since), so once the loop reads past n0   *)
(* it appends for ever: the call does not return ("diverged").             *)
RECURSIVE MergeMagnitudesLoop(_, _, _, _, _)
MergeMagnitudesLoop(h, self, incoming, i, n0) ==
    IF i > Len(h.ml[incoming])
    THEN [heap |-> h, status |-> "ok"]
    ELSE IF h.org[self].magnitudes = incoming /\ i > n0
    THEN [heap |-> h, status |-> "diverged"]
    ELSE LET magnitude1 == h.ml[incoming][i]
             own == h.org[self].magnitudes
             has_magnitude == CompareLoop(h.ml[own], magnitude1, 1, "False")
         IN  IF has_magnitude = "ValueError"
             THEN [heap |-> h, status |-> "ValueError"]
             ELSE MergeMagnitudesLoop(
                      IF has_magnitude = "False"
                      THEN [h EXCEPT !.ml[own] = Append(@, magnitude1)]
                      ELSE h,
                      self, incoming, i + 1, n0)

(* Origin.merge_secondary_magnitudes(magnitudes): self is an origin ref,   *)
(* incoming the ref of the list object `magnitudes`.                         *)
MergeSecondaryMagnitudes(h, self, incoming) ==
    IF GetNumberMagnitudes(h, self) = 0
    THEN [heap |-> [h EXCEPT !.org[self].magnitudes = incoming],
          status |-> "ok"]
    ELSE MergeMagnitudesLoop(h, self, incoming, 1, Len(h.ml[incoming]))

----------------------------------------------------------------------------
(* isf_catalogue.Event                                                     *)

GetOriginIdList(h, self) ==
    [k \in 1..Len(h.ev[self].origins) |-> h.org[h.ev[self].origins[k]].id]

(* The loop body of merge_secondary_origin that forgets a secondary origin *)
(* whose id the event does not have yet.                                   *)
MergeOneOriginNoAppend(h, self, current_id_list, origin2) ==
    IF h.org[origin2].id \in Range(current_id_list)
    THEN LET location == Index(current_id_list, h.org[origin2].id)
             origin == h.ev[self].origins[location]
             r == MergeSecondaryMagnitudes(h, origin, h.org[origin2].magnitudes)
         IN  [heap |-> [r.heap EXCEPT !.ev[self].origins[location] = origin],
              status |-> r.status]
    ELSE [heap |-> h, status |-> "ok"]

(* The body of the loop of merge_secondary_origin for one origin2.         *)
MergeOneOrigin(h, self, current_id_list, origin2) ==
    IF h.org[origin2].id \in Range(current_id_list)
    THEN LET location == Index(current_id_list, h.org[origin2].id)
             origin == h.ev[self].origins[location]
             r == MergeSecondaryMagnitudes(h, origin, h.org[origin2].magnitudes)
         IN  [heap |-> [r.heap EXCEPT !.ev[self].origins[location] = origin],
              status |-> r.status]
    ELSE [heap |-> [h EXCEPT !.ev[self].origins = Append(@, origin2)],
          status |-> "ok"]

(* `for origin2 in origin2set`, from position k on; origin2set is the      *)
(* origins list of the event `other`.                                      *)
RECURSIVE MergeOriginsLoop(_, _, _, _, _)
MergeOriginsLoop(h, self, other, current_id_list, k) ==
    IF k > Len(h.ev[other].origins)
    THEN [heap |-> h, status |-> "ok"]
    ELSE LET r == MergeOneOrigin(h, self, current_id_list,
                                 h.ev[other].origins[k])
         IN  IF r.status # "ok"
             THEN r
             ELSE MergeOriginsLoop(r.heap, self, other, current_id_list, k + 1)

(* Event.merge_secondary_origin(origin2set)                                *)
MergeSecondaryOrigin(h, self, other) ==
    MergeOriginsLoop(h, self, other, GetOriginIdList(h, self), 1)

----------------------------------------------------------------------------
(* isf_catalogue.ISFCatalogue                                              *)

GetEventKeyList(h, c) ==
    [k \in 1..Len(h.cat[c]) |-> h.ev[h.cat[c][k]].id]

(* The loop body of merge_second_catalogue that also takes over the        *)
(* secondary events the primary does not have (a union of catalogues).     *)
MergeKeyUnion(h, self, catalogue, native_keys, new_keys, iloc) ==
    IF new_keys[iloc] \in Range(native_keys)
    THEN LET location == Index(native_keys, new_keys[iloc])
             primary == h.cat[self][location]
             r == MergeSecondaryOrigin(h, primary, h.cat[catalogue][iloc])
         IN  [heap |-> [r.heap EXCEPT !.cat[self][location] = primary],
              status |-> r.status]
    ELSE [heap |-> [h EXCEPT !.cat[self] = Append(@, h.cat[catalogue][iloc])],
          status |-> "ok"]

(* The loop body of merge_second_catalogue for the key at iloc.            *)
MergeKey(h, self, catalogue, native_keys, new_keys, iloc) ==
    IF new_keys[iloc] \in Range(native_keys)
    THEN LET location == Index(native_keys, new_keys[iloc])
             primary == h.cat[self][location]
             r == MergeSecondaryOrigin(h, primary, h.cat[catalogue][iloc])
         IN  [heap |-> [r.heap EXCEPT !.cat[self][location] = primary],
              status |-> r.status]
    ELSE [heap |-> h, status |-> "ok"]

RECURSIVE MergeKeysLoop(_, _, _, _, _, _)
MergeKeysLoop(h, self, catalogue, native_keys, new_keys, iloc) ==
    IF iloc > Len(new_keys)
    THEN [heap |-> h, status |-> "ok"]
    ELSE LET r == MergeKey(h, self, catalogue, native_keys, new_keys, iloc)
         IN  IF r.status # "ok"
             THEN r
             ELSE MergeKeysLoop(r.heap, self, catalogue, native_keys,
                                new_keys, iloc + 1)

(* ISFCatalogue.merge_second_catalogue(catalogue)                          *)
MergeSecondCatalogue(h, self, catalogue) ==
    MergeKeysLoop(h, self, catalogue, GetEventKeyList(h, self),
                  GetEventKeyList(h, catalogue), 1)

----------------------------------------------------------------------------
(* The input catalogues.  A catalogue is given as a sequence of events,    *)
(* an event as [id, origins], an origin as [id, magnitudes]; every         *)
(* magnitude carries the id of its origin, as after                        *)
(* Event.assign_magnitudes_to_origins.                                     *)

EventIds == {"e1", "e2"}

(* (author, scale, value): three values of one key, and two other keys.    *)
(* Of the three, 5.001 and 5.002 agree within the tolerance: their floats  *)
(* are less than 0.001 apart.  5.0 and 5.001 do not: their floats are      *)
(* more than 0.001 apart.  5.0 and 5.002 are 0.002 apart.                  *)
MagChoices ==
    { <<"ISC", "mb", 50000>>, <<"ISC", "mb", 50010>>, <<"ISC", "mb", 50020>>,
      <<"ISC", "Mw", 50000>>, <<"GCMT", "mb", 50020>> }

MagsOf(oid, choice) ==
    [k \in 1..Len(choice) |->
        Magnitude(oid, Some(choice[k][3]), choice[k][1], Some(choice[k][2]))]

OriginValue(oid, choice) == [id |-> oid, magnitudes |-> MagsOf(oid, choice)]

(* Family 1: one event holding one origin "o1" on each side, every list    *)
(* of up to MaxMags magnitudes.                                            *)
MagnitudeCatalogues ==
    { << [id |-> "e1", origins |-> << OriginValue("o1", c) >>] >> :
        c \in SeqsUpTo(MagChoices, MaxMags) }

(* Family 2: one event "e1" on each side, every list of up to MaxOrigins   *)
(* origins: "o1" with no magnitude or with one (of two keys, two values of *)
(* one in conflict), or "o2" with one magnitude.                           *)
OriginChoices ==
    { OriginValue("o1", c) :
        c \in { <<>>, << <<"ISC", "mb", 50000>> >>, << <<"ISC", "mb", 50020>> >>,
                << <<"ISC", "Mw", 50000>> >> } }
    \cup { OriginValue("o2", << <<"ISC", "mb", 50000>> >>) }

OriginCatalogues ==
    { << [id |-> "e1", origins |-> os] >> :
        os \in SeqsUpTo(OriginChoices, MaxOrigins) }

(* Family 3: every list of up to MaxEvents events, each with one origin    *)
(* holding one magnitude.                                                  *)
EventChoices ==
    { [id |-> eid, origins |-> << OriginValue(o[1], << o[2] >>) >>] :
        eid \in EventIds,
        o \in { <<"o1", <<"ISC", "mb", 50000>> >>,
                <<"o2", <<"ISC", "mb", 50020>> >> } }

EventCatalogues == SeqsUpTo(EventChoices, MaxEvents)

CatNames == {"A", "B"}

EvRefs(c, cat) == {<<c, i>> : i \in 1..Len(cat)}

OrgRefs(c, cat) ==
    UNION {{<<c, i, j>> : j \in 1..Len(cat[i].origins)} : i \in 1..Len(cat)}

(* The object graph of two freshly built catalogues: every event, origin   *)
(* and magnitude list is an object of its own.                             *)
Load(a, b) ==
    LET val == [c \in CatNames |-> IF c = "A" THEN a ELSE b]
        ers == EvRefs("A", a) \cup EvRefs("B", b)
        ors == OrgRefs("A", a) \cup OrgRefs("B", b)
    IN  [cat |-> [c \in CatNames |-> [i \in 1..Len(val[c]) |-> <<c, i>>]],
         ev  |-> [e \in ers |->
                    [id |-> val[e[1]][e[2]].id,
                     origins |-> [j \in 1..Len(val[e[1]][e[2]].origins) |->
                                     <<e[1], e[2], j>>],
                     magnitudes |->
                        Flatten([j \in 1..Len(val[e[1]][e[2]].origins) |->
                                   val[e[1]][e[2]].origins[j].magnitudes])]],
         org |-> [o \in ors |->
                    [id |-> val[o[1]][o[2]].origins[o[3]].id,
                     magnitudes |-> o]],
         ml  |-> [o \in ors |-> val[o[1]][o[2]].origins[o[3]].magnitudes]]

----------------------------------------------------------------------------
(* Text.  A string that the code searches or changes the case of is a      *)
(* sequence of characters.                                                 *)

UpperCase ==
    <<"A", "B", "C", "D", "E", "F", "G", "H", "I", "J", "K", "L", "M",
      "N", "O", "P", "Q", "R", "S", "T", "U", "V", "W", "X", "Y", "Z">>

LowerCase ==
    <<"a", "b", "c", "d", "e", "f", "g", "h", "i", "j", "k", "l", "m",
      "n", "o", "p", "q", "r", "s", "t", "u", "v", "w", "x", "y", "z">>

(* str.lower() of one character: a capital letter becomes its small        *)
(* letter, any other character stays.                                      *)
Lower(c) ==
    IF c \in Range(UpperCase) THEN LowerCase[Index(UpperCase, c)] ELSE c

(* str.lower()                                                             *)
LowerStr(str) == [k \in 1..Len(str) |-> Lower(str[k])]

(* `k in str`                                                              *)
Contains(str, k) ==
    \E i \in 0..(Len(str) - Len(k)) : SubSeq(str, i + 1, i + Len(k)) = k

(* Number of occurrences of the character c in str.                        *)
Count(str, c) == Cardinality({k \in 1..Len(str) : str[k] = c})

----------------------------------------------------------------------------
(* Numbers.  The bounds self.lower_mag and self.upper_mag are -inf, +inf   *)
(* or a number.                                                            *)

(* The truth value Python gives an optional number: None and 0 are false.  *)
Truthy(x) == x # None /\ x[1] # 0

NegInf == [inf |-> -1, n |-> 0]
PosInf == [inf |-> 1, n |-> 0]
Num(n) == [inf |-> 0, n |-> n]

(* v >= b and v <= b for a number v and a bound b.                         *)
Geq(v, b) == b.inf = -1 \/ (b.inf = 0 /\ v >= b.n)
Leq(v, b) == b.inf = 1 \/ (b.inf = 0 /\ v <= b.n)

----------------------------------------------------------------------------
(* The lines of an ISF file.  A line is given by what the reader tests of  *)
(* it, in `form`, and by the fields the record builders slice out of it:   *)
(*   "blank"             the empty line                                    *)
(*   "banner"            a line containing "DATA_TYPE EVENT IMS1.0",       *)
(*                       "ISC Bulletin" or "STOP"                          *)
(*   "prime", "centroid" the line " (#PRIME)", the line " (#CENTROID)"     *)
(*   "comment"           the line " (<text>)"                              *)
(*   "event"             the line "Event <id> <description>"               *)
(*   "origin_header", "magnitude_header"   the two column header lines     *)
(*   "origin"            a line of 136 characters without parentheses:     *)
(*                       latitude in [36:44], longitude in [45:54],        *)
(*                       author in [118:127], origin id in [128:]          *)
(*   "magnitude"         a line of 38 characters without parentheses:      *)
(*                       scale in [:5] (the empty string if blank),        *)
(*                       value in [6:10] (None if blank, else Some(v)),    *)
(*                       author in [20:29], origin id in [30:]             *)
(*   "other"             any other line of `len` characters                *)
(* A line of the last four forms may also hold a parenthesized text        *)
(* somewhere, given in `paren`.  Longitudes and latitudes are whole        *)
(* degrees.                                                                *)

OriginRowLen == 136
MagnitudeRowLen == 38

BlankRow == [form |-> "blank"]
BannerRow == [form |-> "banner"]
PrimeRow == [form |-> "prime"]
CentroidRow == [form |-> "centroid"]
CommentRow(text) == [form |-> "comment", text |-> text]
EventRow(id, description) ==
    [form |-> "event", id |-> id, description |-> description]
OriginHeaderRow == [form |-> "origin_header"]
MagnitudeHeaderRow == [form |-> "magnitude_header"]
OriginRow(id, author, longitude, latitude) ==
    [form |-> "origin", id |-> id, author |-> author,
     longitude |-> longitude, latitude |-> latitude]
MagnitudeRow(scale, value, author, origin_id) ==
    [form |-> "magnitude", scale |-> scale, value |-> value,
     author |-> author, origin_id |-> origin_id]
OtherRow(len) == [form |-> "other", len |-> len]

(* The line `row` with "(<text>)" in one of its free-text columns.         *)
WithParen(row, text) ==
    [f \in DOMAIN row \cup {"paren"} |->
        IF f = "paren" THEN text ELSE row[f]]

(* re.search("\((.*?)\)", row): None, or group(1) of the first match.      *)
CommentFind(row) ==
    IF row.form = "comment" THEN Some(row.text)
    ELSE IF "paren" \in DOMAIN row THEN Some(row.paren)
    ELSE None

(* len(row.strip('\n'))                                                    *)
RowLen(row) ==
    CASE row.form = "origin" -> OriginRowLen
      [] row.form = "magnitude" -> MagnitudeRowLen
      [] row.form = "other" -> row.len
      [] OTHER -> 0

----------------------------------------------------------------------------
(* Record builders of the reader.                                          *)

(* get_event_header_row                                                    *)
GetEventHeaderRow(row) ==
    [id |-> row.id, description |-> row.description, origins |-> <<>>,
     magnitudes |-> <<>>, comment |-> <<>>]

(* get_event_origin_row without the test of the author.                    *)
GetEventOriginRowUnfiltered(row, selected_agencies) ==
    Some([id |-> row.id, author |-> row.author,
          location |-> [longitude |-> row.longitude,
                        latitude |-> row.latitude],
          is_prime |-> FALSE, is_centroid |-> FALSE,
          magnitudes |-> <<>>])

(* get_event_origin_row: None, or the Origin (date, time, depth, error     *)
(* ellipse and metadata left out).                                         *)
GetEventOriginRow(row, selected_agencies) ==
    IF selected_agencies # {} /\ row.author \notin selected_agencies
    THEN None
    ELSE Some([id |-> row.id, author |-> row.author,
               location |-> [longitude |-> row.longitude,
                             latitude |-> row.latitude],
               is_prime |-> FALSE, is_centroid |-> FALSE,
               magnitudes |-> <<>>])

(* get_event_magnitude: None, or what Magnitude(...) gives for the fields  *)
(* of the row.                                                             *)
GetEventMagnitude(row, selected_agencies) ==
    IF selected_agencies # {} /\ row.author \notin selected_agencies
    THEN None
    ELSE Some(Magnitude(row.origin_id, row.value, row.author,
                        Some(row.scale)))

(* assign_magnitudes_to_origins without the test of the origin id: each    *)
(* origin appends every magnitude of the event.                            *)
AssignMagnitudesToOriginsAll(ev) ==
    [ev EXCEPT !.origins =
        [k \in 1..Len(ev.origins) |->
            [ev.origins[k] EXCEPT !.magnitudes = @ \o ev.magnitudes]]]

(* Event.assign_magnitudes_to_origins: each origin in turn appends every   *)
(* magnitude of the event that carries its id.                             *)
AssignMagnitudesToOrigins(ev) ==
    [ev EXCEPT !.origins =
        [k \in 1..Len(ev.origins) |->
            [ev.origins[k] EXCEPT !.magnitudes =
                @ \o SelectSeq(ev.magnitudes,
                               LAMBDA m : ev.origins[k].id = m.origin_id)]]]

----------------------------------------------------------------------------
(* ISFReader                                                               *)

ISFCatalogue(identifier, name, events) ==
    [type |-> "ISFCatalogue", id |-> identifier, name |-> name,
     events |-> events]

(* A plain list of events (self.rejected_catalogue before it is wrapped).  *)
EventList(events) == [type |-> "list", events |-> events]

(* ISFReader.__init__: the fields of the new reader, or the                *)
(* AssertionError it raises.                                               *)
ISFReaderInit(a) ==
    IF /\ Truthy(a.lower_magnitude) /\ Truthy(a.upper_magnitude)
       /\ ~(a.upper_magnitude[1] > a.lower_magnitude[1])
    THEN [raised |-> "AssertionError"]
    ELSE IF Len(a.bbox) # 0 /\ Len(a.bbox) # 4
    THEN [raised |-> "AssertionError"]
    ELSE [raised |-> "",
          self |->
            [selected_origin_agencies |-> a.selected_origin_agencies,
             selected_magnitude_agencies |-> a.selected_magnitude_agencies,
             rejected_catalogue |-> EventList(<<>>),
             rejection_keywords |-> a.rejection_keywords,
             store_comments |-> a.store_all_comments,
             lower_mag |-> IF Truthy(a.lower_magnitude)
                           THEN Num(a.lower_magnitude[1]) ELSE NegInf,
             upper_mag |-> IF Truthy(a.upper_magnitude)
                           THEN Num(a.upper_magnitude[1]) ELSE PosInf,
             lower_long |-> IF Len(a.bbox) # 0 THEN a.bbox[1] ELSE -180,
             lower_lat |-> IF Len(a.bbox) # 0 THEN a.bbox[2] ELSE -90,
             upper_long |-> IF Len(a.bbox) # 0 THEN a.bbox[3] ELSE 180,
             upper_lat |-> IF Len(a.bbox) # 0 THEN a.bbox[4] ELSE 90,
             catalogue |-> ISFCatalogue("", "", <<>>)]]

(* The magnitude loop of _acceptance.                                      *)
ValidMagnitude(slf, ev) ==
    \E k \in 1..Len(ev.magnitudes) :
        /\ Geq(ev.magnitudes[k].value, slf.lower_mag)
        /\ Leq(ev.magnitudes[k].value, slf.upper_mag)

(* The origin loop of _acceptance with the bounds of the box excluded.     *)
ValidLocationExclusive(slf, ev) ==
    \E k \in 1..Len(ev.origins) :
        /\ ev.origins[k].location.longitude > slf.lower_long
        /\ ev.origins[k].location.longitude < slf.upper_long
        /\ ev.origins[k].location.latitude > slf.lower_lat
        /\ ev.origins[k].location.latitude < slf.upper_lat

(* The origin loop of _acceptance.                                         *)
ValidLocation(slf, ev) ==
    \E k \in 1..Len(ev.origins) :
        /\ ev.origins[k].location.longitude >= slf.lower_long
        /\ ev.origins[k].location.longitude <= slf.upper_long
        /\ ev.origins[k].location.latitude >= slf.lower_lat
        /\ ev.origins[k].location.latitude <= slf.upper_lat

(* The keyword loop of _acceptance without the two lower() calls.          *)
HasRejectionKeywordSameCase(slf, ev) ==
    \E k \in 1..Len(slf.rejection_keywords) :
        Contains(ev.comment, slf.rejection_keywords[k])

(* The keyword loop of _acceptance.                                        *)
HasRejectionKeyword(slf, ev) ==
    \E k \in 1..Len(slf.rejection_keywords) :
        Contains(LowerStr(ev.comment), LowerStr(slf.rejection_keywords[k]))

(* _acceptance with the keyword check before the other two.               *)
AcceptanceKeywordFirst(slf, ev) ==
    IF HasRejectionKeyword(slf, ev)
    THEN [accept |-> FALSE,
          self |-> [slf EXCEPT !.rejected_catalogue.events = Append(@, ev)]]
    ELSE IF ~ValidMagnitude(slf, ev)
    THEN [accept |-> FALSE, self |-> slf]
    ELSE IF ~ValidLocation(slf, ev)
    THEN [accept |-> FALSE, self |-> slf]
    ELSE [accept |-> TRUE, self |-> slf]

(* ISFReader._acceptance: the value returned and the reader after it.      *)
Acceptance(slf, ev) ==
    IF ~ValidMagnitude(slf, ev)
    THEN [accept |-> FALSE, self |-> slf]
    ELSE IF ~ValidLocation(slf, ev)
    THEN [accept |-> FALSE, self |-> slf]
    ELSE IF HasRejectionKeyword(slf, ev)
    THEN [accept |-> FALSE,
          self |-> [slf EXCEPT !.rejected_catalogue.events = Append(@, ev)]]
    ELSE [accept |-> TRUE, self |-> slf]

(* _build_event raises AttributeError: it reaches the append of            *)
(* _acceptance while self.rejected_catalogue is not a list.                *)
BuildEventRaises(slf, ev, origs, mags, comment) ==
    LET event1 == [ev EXCEPT !.origins = origs, !.magnitudes = mags]
        event2 == [AssignMagnitudesToOrigins(event1)
                      EXCEPT !.comment = comment]
    IN  /\ Len(event1.origins) # 0 /\ Len(event1.magnitudes) # 0
        /\ ValidMagnitude(slf, event2)
        /\ ValidLocation(slf, event2)
        /\ HasRejectionKeyword(slf, event2)
        /\ slf.rejected_catalogue.type # "list"

(* _build_event that puts an accepted event at the head of the catalogue.  *)
BuildEventPrepend(slf, ev, origs, mags, comment) ==
    LET event1 == [ev EXCEPT !.origins = origs, !.magnitudes = mags]
    IN  IF Len(event1.origins) # 0 /\ Len(event1.magnitudes) # 0
        THEN LET event2 == [AssignMagnitudesToOrigins(event1)
                               EXCEPT !.comment = comment]
                 r == Acceptance(slf, event2)
             IN  IF r.accept
                 THEN [r.self EXCEPT !.catalogue.events =
                          <<IF ~slf.store_comments
                            THEN [event2 EXCEPT !.comment = <<>>]
                            ELSE event2>> \o @]
                 ELSE r.self
        ELSE slf

(* _build_event with the append outside the test of the two lengths.      *)
BuildEventAlwaysAppend(slf, ev, origs, mags, comment) ==
    LET event1 == [ev EXCEPT !.origins = origs, !.magnitudes = mags]
    IN  [slf EXCEPT !.catalogue.events = Append(@, event1)]

(* ISFReader._build_event: the reader after it.                            *)
BuildEvent(slf, ev, origs, mags, comment) ==
    LET event1 == [ev EXCEPT !.origins = origs, !.magnitudes = mags]
    IN  IF Len(event1.origins) # 0 /\ Len(event1.magnitudes) # 0
        THEN LET event2 == [AssignMagnitudesToOrigins(event1)
                               EXCEPT !.comment = comment]
                 r == Acceptance(slf, event2)
             IN  IF r.accept
                 THEN [r.self EXCEPT !.catalogue.events =
                          Append(@, IF ~slf.store_comments
                                    THEN [event2 EXCEPT !.comment = <<>>]
                                    ELSE event2)]
                 ELSE r.self
        ELSE slf

(* The prime marker applied to origins[0] instead of origins[-1].          *)
MarkPrimeFirst(origs) ==
    IF Len(origs) > 0
    THEN [origs EXCEPT ![1].is_prime = TRUE]
    ELSE origs

(* `if len(origins) > 0: origins[-1].is_prime = True`                      *)
MarkPrime(origs) ==
    IF Len(origs) > 0
    THEN [origs EXCEPT ![Len(origs)].is_prime = TRUE]
    ELSE origs

(* `if len(origins) > 0: origins[-1].is_centroid = True`                   *)
MarkCentroid(origs) ==
    IF Len(origs) > 0
    THEN [origs EXCEPT ![Len(origs)].is_centroid = TRUE]
    ELSE origs

----------------------------------------------------------------------------
(* The inputs of a run of the reader: the constructor arguments and the    *)
(* lines of the file, drawn from one of these families.                    *)

Identifier == "ISC"
Name == "Bulletin"

DefaultArgs ==
    [selected_origin_agencies |-> {}, selected_magnitude_agencies |-> {},
     rejection_keywords |-> <<>>, bbox |-> <<>>,
     lower_magnitude |-> None, upper_magnitude |-> None,
     store_all_comments |-> FALSE]

StructureRows ==
    { BlankRow, BannerRow, OriginHeaderRow, MagnitudeHeaderRow,
      EventRow("e1", "d") }

Families ==
    {"window", "box", "keyword", "marker", "agency", "skipped", "chain",
     "failing", "config", "paren", "dropped", "reread", "blank"}

ArgsOf(f) ==
    CASE f = "window" ->
            { [DefaultArgs EXCEPT !.lower_magnitude = lo,
                                  !.upper_magnitude = up] :
                lo \in {None, Some(0), Some(60000)},
                up \in {None, Some(0), Some(70000)} }
      [] f = "box" ->
            { [DefaultArgs EXCEPT !.bbox = b] :
                b \in {<<>>, <<0, 0, 20, 20>>} }
      [] f = "keyword" ->
            { [DefaultArgs EXCEPT !.rejection_keywords = kw,
                                  !.store_all_comments = sc] :
                kw \in {<<>>, << <<"a", "b">> >>},
                sc \in BOOLEAN }
      [] f = "marker" -> { DefaultArgs }
      [] f = "agency" ->
            { [DefaultArgs EXCEPT !.selected_origin_agencies = oa,
                                  !.selected_magnitude_agencies = ma] :
                oa \in {{}, {"ISC"}}, ma \in {{}, {"ISC"}} }
      [] f = "skipped" ->
            { [DefaultArgs EXCEPT !.selected_origin_agencies = {"ISC"}] }
      [] f = "chain" ->
            { [DefaultArgs EXCEPT !.rejection_keywords = << <<"a", "b">> >>] }
      [] f = "failing" ->
            { [DefaultArgs EXCEPT !.rejection_keywords = << <<"a", "b">> >>,
                                  !.bbox = <<0, 0, 20, 20>>],
              [DefaultArgs EXCEPT !.rejection_keywords = << <<"a", "b">> >>,
                                  !.lower_magnitude = Some(60000)] }
      [] f = "config" ->
            { [DefaultArgs EXCEPT !.lower_magnitude = lo,
                                  !.upper_magnitude = up,
                                  !.bbox = b] :
                lo \in {None, Some(0), Some(60000)},
                up \in {None, Some(0), Some(50000)},
                b \in {<<>>, <<0, 0>>, <<0, 0, 20, 20>>} }
      [] f = "paren" ->
            { [DefaultArgs EXCEPT !.store_all_comments = TRUE] }
      [] f = "dropped" -> { DefaultArgs }
      [] f = "reread" ->
            { [DefaultArgs EXCEPT !.rejection_keywords = << <<"a", "b">> >>] }
      [] f = "blank" ->
            { [DefaultArgs EXCEPT !.selected_magnitude_agencies = ma] :
                ma \in {{}, {"ISC"}} }

RowsOf(f) ==
    StructureRows \cup
    CASE f = "window" ->
            { OriginRow("o1", "ISC", 10, 10) }
            \cup { MagnitudeRow("mb", Some(v), "ISC", "o1") :
                     v \in {-5000, 50000, 62000} }
      [] f = "box" ->
            { OriginRow("o1", "ISC", c[1], c[2]) :
                c \in { <<20, 0>>, <<30, 10>>, <<-180, -90>> } }
            \cup { MagnitudeRow("mb", Some(50000), "ISC", "o1") }
      [] f = "keyword" ->
            { OriginRow("o1", "ISC", 10, 10),
              MagnitudeRow("mb", Some(50000), "ISC", "o1"),
              CommentRow(<<"A", "b">>), CommentRow(<<"b">>) }
      [] f = "marker" ->
            { OriginRow("o1", "ISC", 10, 10),
              MagnitudeRow("mb", Some(50000), "ISC", "o1"),
              PrimeRow, CentroidRow }
      [] f = "agency" ->
            { OriginRow("o1", "ISC", 10, 10), OriginRow("o2", "GCMT", 10, 10),
              MagnitudeRow("mb", Some(50000), "ISC", "o1"),
              MagnitudeRow("mb", Some(50000), "GCMT", "o2") }
      [] f = "skipped" ->
            { OriginRow("o1", "ISC", 10, 10), OriginRow("o2", "GCMT", 10, 10),
              MagnitudeRow("mb", Some(50000), "ISC", "o1"),
              PrimeRow }
      [] f = "chain" ->
            { EventRow("e2", "d"),
              OriginRow("o1", "ISC", 10, 10),
              MagnitudeRow("mb", Some(50000), "ISC", "o1"),
              CommentRow(<<"A", "b">>) }
      [] f = "failing" ->
            { OriginRow("o1", "ISC", 30, 10),
              MagnitudeRow("mb", Some(50000), "ISC", "o1"),
              CommentRow(<<"A", "b">>) }
      [] f = "config" -> { CommentRow(<<"b">>) }
      [] f = "paren" ->
            { WithParen(EventRow("e2", "d"), <<"b">>),
              OriginRow("o1", "ISC", 10, 10),
              WithParen(OriginRow("o2", "ISC", 10, 10), <<"b">>),
              MagnitudeRow("mb", Some(50000), "ISC", "o1") }
      [] f = "dropped" ->
            { OriginRow("o1", "ISC", 10, 10),
              MagnitudeRow("mb", Some(50000), "ISC", "o1"),
              OtherRow(10) }
      [] f = "reread" ->
            { OriginRow("o1", "ISC", 10, 10),
              MagnitudeRow("mb", Some(50000), "ISC", "o1"),
              CommentRow(<<"A", "b">>) }
      [] f = "blank" ->
            { OriginRow("o1", "ISC", 10, 10),
              MagnitudeRow("", Some(50000), "ISC", "o1"),
              MagnitudeRow("mb", None, "ISC", "o1"),
              MagnitudeRow("mb", None, "GCMT", "o1") }

NoEvent == GetEventHeaderRow(EventRow("", ""))

NoneUsed ==
    [origin |-> 0, magnitude |-> 0, comment |-> 0, filtered |-> {},
     last_filtered |-> FALSE, after_header |-> FALSE, dropped |-> None,
     headers |-> <<>>, calls |-> 0]

(* The record of the file after a line that is neither a filtered origin   *)
(* row, nor an Event header, nor a dropped line.                           *)
NextLine(u) ==
    [u EXCEPT !.last_filtered = FALSE, !.after_header = FALSE,
              !.dropped = None]

EmptyHeap == Load(<<>>, <<>>)

DownloadIdle ==
    /\ Request = [StartYear |-> 2012, EndYear |-> 2013]
    /\ SplitYears = 0
    /\ StartYear = 0
    /\ EndYear = 0
    /\ SY = 0
    /\ CatBlock = <<>>
    /\ dpc = "idle"

MergeIdle ==
    /\ heap = EmptyHeap
    /\ pre = EmptyHeap
    /\ status = "ok"
    /\ nmerges = 0

(* The locals of read_file before its loop; they are gone when it returns. *)
LocalsReset ==
    /\ counter = 0
    /\ is_origin = FALSE
    /\ is_magnitude = FALSE
    /\ comment_str = <<>>
    /\ event = NoEvent
    /\ origins = <<>>
    /\ magnitudes = <<>>
    /\ used = NoneUsed

ReadIdle ==
    /\ family = ""
    /\ args = DefaultArgs
    /\ reader = ISFReaderInit(DefaultArgs).self
    /\ pc = "idle"
    /\ LocalsReset

(* The state after ISFReader(filename, ...) returned or raised.            *)
InitRead ==
    /\ family \in Families
    /\ args \in ArgsOf(family)
    /\ LET r == ISFReaderInit(args)
       IN  IF r.raised # ""
           THEN pc = r.raised /\ reader = ISFReaderInit(DefaultArgs).self
           ELSE pc = "constructed" /\ reader = r.self
    /\ LocalsReset
    /\ MergeIdle
    /\ DownloadIdle

(* read_file(identifier, name) up to its loop, on a new reader.            *)
Open ==
    /\ pc = "constructed"
    /\ reader' = [reader EXCEPT
                     !.catalogue = ISFCatalogue(Identifier, Name, <<>>)]
    /\ pc' = "reading"
    /\ used' = [NoneUsed EXCEPT !.calls = used.calls + 1]
    /\ UNCHANGED <<family, args, counter, is_origin, is_magnitude,
                   comment_str, event, origins, magnitudes, mergeVars,
                   downloadVars>>

(* read_file(identifier, name) up to its loop, on a reader whose           *)
(* read_file has returned before.                                          *)
OpenAgain ==
    /\ pc = "done"
    /\ used.calls < MaxReads
    /\ reader' = [reader EXCEPT
                     !.catalogue = ISFCatalogue(Identifier, Name, <<>>)]
    /\ pc' = "reading"
    /\ used' = [NoneUsed EXCEPT !.calls = used.calls + 1]
    /\ UNCHANGED <<family, args, counter, is_origin, is_magnitude,
                   comment_str, event, origins, magnitudes, mergeVars,
                   downloadVars>>

(* The lines the bounds of the model let the file continue with; a line    *)
(* taken as a comment counts as a comment line, whatever its form.  The    *)
(* comment lines of a "chain" file are no more than its Event headers so   *)
(* far; those of a "keyword", "failing" or "reread" file follow an Event   *)
(* header;                                                                 *)
(* only a "dropped" file has data rows outside their section.              *)
WithinBounds(row) ==
    IF row.form \in {"prime", "centroid"}
    THEN TRUE
    ELSE IF CommentFind(row) # None
    THEN CASE family = "chain" -> used.comment < counter
           [] family \in {"keyword", "failing", "reread"} ->
                 counter > 0 /\ used.comment < MaxCommentRows
           [] OTHER -> used.comment < MaxCommentRows
    ELSE CASE row.form = "event" -> counter < MaxHeaders
           [] row.form = "origin" ->
                 used.origin < MaxOriginRows
                     /\ (is_origin \/ family = "dropped")
           [] row.form = "magnitude" ->
                 used.magnitude < MaxMagnitudeRows
                     /\ (is_magnitude \/ family = "dropped")
           [] OTHER -> TRUE

(* A name of read_file is read before it was ever assigned.                *)
RaiseUnbound ==
    /\ pc' = "UnboundLocalError"
    /\ UNCHANGED <<family, args, reader, locals>>

(* Magnitude(...) raises ValueError inside get_event_magnitude.            *)
RaiseValue ==
    /\ pc' = "ValueError"
    /\ UNCHANGED <<family, args, reader, locals>>

(* `is_magnitude and len(row.strip('\n')) == 38`                           *)
IsMagnitudeRow(row) == is_magnitude /\ RowLen(row) = MagnitudeRowLen

(* The test of an origin row without the test of the section.              *)
IsOriginRowAnySection(row) == RowLen(row) = OriginRowLen

(* `is_origin and len(row.strip('\n')) == 136`                             *)
IsOriginRow(row) == is_origin /\ RowLen(row) = OriginRowLen

(* self.rejected_catalogue.append(event) where self.rejected_catalogue is  *)
(* the ISFCatalogue an earlier call left, which has no append.             *)
RaiseAttribute ==
    /\ pc' = "AttributeError"
    /\ UNCHANGED <<family, args, reader, locals>>

(* One iteration of `for row in f.readlines()`.                            *)
ReadLine(row) ==
    /\ pc = "reading"
    /\ WithinBounds(row)
    /\ IF row.form = "blank" \/ row.form = "banner"
       THEN used' = NextLine(used)
            /\ UNCHANGED <<family, args, reader, pc, counter, is_origin,
                           is_magnitude, comment_str, event, origins,
                           magnitudes>>
       ELSE IF row.form = "prime"
       THEN IF counter = 0
            THEN RaiseUnbound
            ELSE origins' = MarkPrime(origins)
                 /\ used' = NextLine(used)
                 /\ UNCHANGED <<family, args, reader, pc, counter, is_origin,
                                is_magnitude, comment_str, event, magnitudes>>
       ELSE IF row.form = "centroid"
       THEN IF counter = 0
            THEN RaiseUnbound
            ELSE origins' = MarkCentroid(origins)
                 /\ used' = NextLine(used)
                 /\ UNCHANGED <<family, args, reader, pc, counter, is_origin,
                                is_magnitude, comment_str, event, magnitudes>>
       ELSE IF CommentFind(row) # None
       THEN comment_str' = comment_str \o CommentFind(row)[1] \o <<"\n">>
            /\ used' = [NextLine(used) EXCEPT !.comment = @ + 1]
            /\ UNCHANGED <<family, args, reader, pc, counter, is_origin,
                           is_magnitude, event, origins, magnitudes>>
       ELSE IF row.form = "event"
                 /\ counter > 0
                 /\ BuildEventRaises(reader, event, origins, magnitudes,
                                     comment_str)
       THEN RaiseAttribute
       ELSE IF row.form = "event"
       THEN /\ reader' = IF counter > 0
                         THEN BuildEvent(reader, event, origins, magnitudes,
                                         comment_str)
                         ELSE reader
            /\ event' = GetEventHeaderRow(row)
            /\ comment_str' = <<>>
            /\ origins' = <<>>
            /\ magnitudes' = <<>>
            /\ counter' = counter + 1
            /\ used' = [NextLine(used) EXCEPT !.headers = Append(@, row.id),
                                               !.after_header = TRUE]
            /\ UNCHANGED <<family, args, pc, is_origin, is_magnitude>>
       ELSE IF row.form = "origin_header"
       THEN is_origin' = TRUE /\ is_magnitude' = FALSE
            /\ used' = NextLine(used)
            /\ UNCHANGED <<family, args, reader, pc, counter, comment_str,
                           event, origins, magnitudes>>
       ELSE IF row.form = "magnitude_header"
       THEN is_origin' = FALSE /\ is_magnitude' = TRUE
            /\ used' = NextLine(used)
            /\ UNCHANGED <<family, args, reader, pc, counter, comment_str,
                           event, origins, magnitudes>>
       ELSE IF IsMagnitudeRow(row)
       THEN IF counter = 0
            THEN RaiseUnbound
            ELSE LET mag == GetEventMagnitude(
                                row, reader.selected_magnitude_agencies)
                 IN  IF mag # None /\ "raised" \in DOMAIN mag[1]
                     THEN RaiseValue
                     ELSE /\ magnitudes' = magnitudes \o mag
                          /\ used' = [NextLine(used) EXCEPT
                                 !.magnitude = @ + Len(mag),
                                 !.filtered = IF mag = None
                                              THEN @ \cup {"magnitude"}
                                              ELSE @]
                          /\ UNCHANGED <<family, args, reader, pc, counter,
                                         is_origin, is_magnitude,
                                         comment_str, event, origins>>
       ELSE IF IsOriginRow(row)
       THEN LET orig == GetEventOriginRow(
                            row, reader.selected_origin_agencies)
            IN  IF orig # None /\ counter = 0
                THEN RaiseUnbound
                ELSE /\ origins' = origins \o orig
                     /\ used' = [NextLine(used) EXCEPT
                                    !.origin = @ + Len(orig),
                                    !.filtered = IF orig = None
                                                 THEN @ \cup {"origin"}
                                                 ELSE @,
                                    !.last_filtered = (orig = None)]
                     /\ UNCHANGED <<family, args, reader, pc, counter,
                                    is_origin, is_magnitude, comment_str,
                                    event, magnitudes>>
       ELSE used' = [NextLine(used) EXCEPT !.dropped = Some(RowLen(row))]
            /\ UNCHANGED <<family, args, reader, pc, counter, is_origin,
                           is_magnitude, comment_str, event, origins,
                           magnitudes>>
    /\ UNCHANGED <<mergeVars, downloadVars>>

(* `if len(self.rejected_catalogue):` and the wrapping of the collection.  *)
(* ISFCatalogue.__init__ keeps `events` only if it is a list: the          *)
(* catalogue an earlier call left is replaced by one without events.       *)
WrapRejected(slf) ==
    IF Len(slf.rejected_catalogue.events) # 0
    THEN [slf EXCEPT !.rejected_catalogue =
             ISFCatalogue(Identifier \o "-R", Name \o " - Rejected",
                          IF slf.rejected_catalogue.type = "list"
                          THEN slf.rejected_catalogue.events
                          ELSE <<>>)]
    ELSE slf

(* read_file after its loop, without the call of _build_event for the      *)
(* last event.                                                             *)
EndOfFileNoBuild ==
    /\ pc = "reading"
    /\ IF counter = 0
       THEN RaiseUnbound
       ELSE /\ reader' = WrapRejected(reader)
            /\ pc' = "done"
            /\ counter' = 0
            /\ is_origin' = FALSE
            /\ is_magnitude' = FALSE
            /\ comment_str' = <<>>
            /\ event' = NoEvent
            /\ origins' = <<>>
            /\ magnitudes' = <<>>
            /\ used' = [NoneUsed EXCEPT !.headers = used.headers,
                                        !.filtered = used.filtered,
                                        !.calls = used.calls]
            /\ UNCHANGED <<family, args>>
    /\ UNCHANGED <<mergeVars, downloadVars>>

(* read_file after its loop.                                               *)
EndOfFile ==
    /\ pc = "reading"
    /\ IF counter = 0
       THEN RaiseUnbound
       ELSE IF BuildEventRaises(reader, event, origins, magnitudes,
                                comment_str)
       THEN RaiseAttribute
       ELSE /\ reader' = WrapRejected(BuildEvent(reader, event, origins,
                                                 magnitudes, comment_str))
            /\ pc' = "done"
            /\ counter' = 0
            /\ is_origin' = FALSE
            /\ is_magnitude' = FALSE
            /\ comment_str' = <<>>
            /\ event' = NoEvent
            /\ origins' = <<>>
            /\ magnitudes' = <<>>
            /\ used' = [NoneUsed EXCEPT !.headers = used.headers,
                                        !.filtered = used.filtered,
                                        !.calls = used.calls]
            /\ UNCHANGED <<family, args>>
    /\ UNCHANGED <<mergeVars, downloadVars>>

NextRead ==
    \/ Open
    \/ \E row \in RowsOf(family) : ReadLine(row)
    \/ EndOfFile

SpecRead == InitRead /\ [][NextRead]_vars

(* Runs that call read_file on one reader more than once.                  *)
InitReread == InitRead /\ family = "reread"

NextReread ==
    \/ Open
    \/ OpenAgain
    \/ \E row \in RowsOf(family) : ReadLine(row)
    \/ EndOfFile

SpecReread == InitReread /\ [][NextReread]_vars

----------------------------------------------------------------------------
(* isc_downloader.ISCBulletinUrl                                           *)

(* The first year a run asks for, as in run_test.py.                       *)
FirstYear == 2000

Min(a, b) == IF a <= b THEN a ELSE b

(* SetField(field_name, field_value) for the two year fields.              *)
SetField(req, field_name, field_value) ==
    [req EXCEPT ![field_name] = field_value]

(* DownloadBlock(): the chunk the server returns for the period of the     *)
(* request.                                                                *)
DownloadBlock(req) == <<req.StartYear, req.EndYear>>

(* The state when GetCatalogue(OutputFile, SplitYears) is called, after    *)
(* SetField("StartYear", ...) and SetField("EndYear", ...).                *)
InitDownload ==
    /\ ReadIdle
    /\ MergeIdle
    /\ \E s \in FirstYear..(FirstYear + MaxSpan) :
        \E e \in s..(FirstYear + MaxSpan) :
            Request = SetField(SetField([StartYear |-> 2012,
                                         EndYear |-> 2013],
                                        "StartYear", s),
                               "EndYear", e)
    /\ SplitYears \in 0..MaxSplit
    /\ StartYear = 0
    /\ EndYear = 0
    /\ SY = 0
    /\ CatBlock = <<>>
    /\ dpc = "called"

(* `if not SplitYears: CatBlock = self.DownloadBlock()` and the write.     *)
GetWhole ==
    /\ dpc = "called"
    /\ SplitYears = 0
    /\ CatBlock' = <<DownloadBlock(Request)>>
    /\ dpc' = "written"
    /\ UNCHANGED <<Request, SplitYears, StartYear, EndYear, SY>>
    /\ UNCHANGED <<mergeVars, readVars>>

(* The else branch up to the loop: the two years are read once.            *)
EnterLoop ==
    /\ dpc = "called"
    /\ SplitYears # 0
    /\ StartYear' = Request.StartYear
    /\ EndYear' = Request.EndYear
    /\ CatBlock' = <<>>
    /\ SY' = Request.StartYear
    /\ dpc' = "loop"
    /\ UNCHANGED <<Request, SplitYears>>
    /\ UNCHANGED <<mergeVars, readVars>>

(* One iteration of `for SY in range(StartYear, EndYear, SplitYears)`.     *)
DownloadChunk ==
    /\ dpc = "loop"
    /\ SY < EndYear
    /\ LET EY == Min(EndYear, SY + SplitYears - 1)
           req == SetField(SetField(Request, "StartYear", SY), "EndYear", EY)
       IN  /\ Request' = req
           /\ CatBlock' = Append(CatBlock, DownloadBlock(req))
    /\ SY' = SY + SplitYears
    /\ UNCHANGED <<SplitYears, StartYear, EndYear, dpc>>
    /\ UNCHANGED <<mergeVars, readVars>>

(* The range is exhausted: CatBlock is written to the output file.         *)
WriteFile ==
    /\ dpc = "loop"
    /\ ~(SY < EndYear)
    /\ dpc' = "written"
    /\ UNCHANGED <<Request, SplitYears, StartYear, EndYear, SY, CatBlock>>
    /\ UNCHANGED <<mergeVars, readVars>>

NextDownload ==
    \/ GetWhole
    \/ EnterLoop
    \/ DownloadChunk
    \/ WriteFile

SpecDownload == InitDownload /\ [][NextDownload]_vars

----------------------------------------------------------------------------
(* Runs of the merge engine.                                               *)

InitMerge ==
    /\ ReadIdle
    /\ DownloadIdle
    /\ \E pair \in (MagnitudeCatalogues \X MagnitudeCatalogues)
                   \cup (OriginCatalogues \X OriginCatalogues)
                   \cup (EventCatalogues \X EventCatalogues) :
          heap = Load(pair[1], pair[2])
    /\ pre = heap
    /\ status = "ok"
    /\ nmerges = 0

(* A.merge_second_catalogue(B).  A raise or a call that does not return    *)
(* ends the run.                                                           *)
Merge ==
    /\ status = "ok"
    /\ nmerges < MaxMerges
    /\ LET r == MergeSecondCatalogue(heap, "A", "B")
       IN  /\ heap' = r.heap
           /\ status' = r.status
    /\ pre' = heap
    /\ nmerges' = nmerges + 1
    /\ UNCHANGED <<readVars, downloadVars>>

NextMerge == Merge

SpecMerge == InitMerge /\ [][NextMerge]_vars

----------------------------------------------------------------------------
(* Properties of the merge engine.                                         *)

Merged == nmerges > 0

(* The list of magnitudes an origin holds in the object graph h.           *)
MagnitudesOf(h, o) == h.ml[h.org[o].magnitudes]

(* The origins of the events of catalogue c in h.                          *)
OriginsIn(h, c) ==
    UNION {Range(h.ev[h.cat[c][i]].origins) : i \in 1..Len(h.cat[c])}

IsPrefix(s, t) == Len(s) <= Len(t) /\ \A k \in 1..Len(s) : s[k] = t[k]

(* Some magnitude of the list `incoming` has the metadata of a magnitude   *)
(* of the list `own` and a value further than the tolerance from it.       *)
Conflict(own, incoming) ==
    \E j \in 1..Len(own), k \in 1..Len(incoming) :
        /\ SameMetadata(own[j], incoming[k])
        /\ Fabs(incoming[k].value - own[j].value) > Tol

(* Both catalogues hold one event of the same id with one origin of the    *)
(* same id: the merge is one call of merge_secondary_magnitudes.           *)
OneOriginEach(h) ==
    /\ \A c \in CatNames :
          Len(h.cat[c]) = 1 /\ Len(h.ev[h.cat[c][1]].origins) = 1
    /\ h.ev[h.cat["A"][1]].id = h.ev[h.cat["B"][1]].id
    /\ h.org[h.ev[h.cat["A"][1]].origins[1]].id
         = h.org[h.ev[h.cat["B"][1]].origins[1]].id

(* C1: merge_second_catalogue never adds, removes or reorders the events   *)
(* of the primary catalogue: its list of events, and so its sequence of    *)
(* event ids, is after the call (however the call ended) what it was       *)
(* before, and an event id that only the secondary has is not in it.       *)
C1_PrimaryEventsKept ==
    Merged =>
        /\ heap.cat["A"] = pre.cat["A"]
        /\ GetEventKeyList(heap, "A") = GetEventKeyList(pre, "A")
        /\ \A k \in Range(GetEventKeyList(pre, "B")) :
              k \notin Range(GetEventKeyList(pre, "A"))
                  => k \notin Range(GetEventKeyList(heap, "A"))

(* A merge returned that changed an event of a primary of two events,      *)
(* while the secondary held an event id the primary does not have.         *)
C1_Witness ==
    /\ Merged /\ status = "ok"
    /\ Len(pre.cat["A"]) = 2
    /\ heap.ev # pre.ev
    /\ \E k \in Range(GetEventKeyList(pre, "B")) :
          k \notin Range(GetEventKeyList(pre, "A"))

(* C2: when a merge returns, no magnitude appended to an origin that had   *)
(* magnitudes before has the (origin id, author, scale) of one of those    *)
(* magnitudes, at whatever position: an incoming magnitude that matches    *)
(* an existing one is dropped.                                             *)
C2_MatchingMagnitudeDropped ==
    (Merged /\ status = "ok") =>
        \A o \in OriginsIn(pre, "A") :
            LET old == MagnitudesOf(pre, o)
                new == MagnitudesOf(heap, o)
            IN  Len(old) > 0 =>
                    \A k \in (Len(old) + 1)..Len(new), j \in 1..Len(old) :
                        ~SameMetadata(old[j], new[k])

(* C3: merge_secondary_magnitudes raises ValueError whenever the origin    *)
(* has a magnitude and the incoming list holds a magnitude in conflict     *)
(* with any magnitude of the origin, whatever its position: for every      *)
(* origin and every list object of every reachable object graph, and in    *)
(* every merge of two catalogues of one origin each.                       *)
C3_ConflictRaises ==
    /\ \A o \in DOMAIN heap.org, l \in DOMAIN heap.ml :
          (Len(MagnitudesOf(heap, o)) > 0
              /\ Conflict(MagnitudesOf(heap, o), heap.ml[l]))
             => MergeSecondaryMagnitudes(heap, o, l).status = "ValueError"
    /\ (Merged /\ OneOriginEach(pre)
          /\ Len(MagnitudesOf(pre, pre.ev[pre.cat["A"][1]].origins[1])) > 0
          /\ Conflict(MagnitudesOf(pre, pre.ev[pre.cat["A"][1]].origins[1]),
                      MagnitudesOf(pre, pre.ev[pre.cat["B"][1]].origins[1])))
         => status = "ValueError"

(* A merge raised although the last magnitude of the origin agrees with    *)
(* every incoming one: the conflict is with an earlier magnitude.          *)
C3_Witness ==
    /\ Merged /\ status = "ValueError" /\ OneOriginEach(pre)
    /\ LET own == MagnitudesOf(pre, pre.ev[pre.cat["A"][1]].origins[1])
           inc == MagnitudesOf(pre, pre.ev[pre.cat["B"][1]].origins[1])
       IN  /\ Len(own) >= 2
           /\ Conflict(SubSeq(own, 1, Len(own) - 1), inc)
           /\ ~Conflict(<<own[Len(own)]>>, inc)

(* C5: after a merge that returned, for every event of the secondary whose *)
(* id the primary has, every origin of it has an origin of the same id in  *)
(* the primary's (first) event of that id, holding a magnitude of the same *)
(* (origin id, author, scale) for each of its magnitudes; and the origins  *)
(* each primary event had are still there, at the head of its list.        *)
C5_NothingLost ==
    (Merged /\ status = "ok") =>
        /\ \A iloc \in 1..Len(heap.cat["B"]) :
              LET keys == GetEventKeyList(heap, "A")
                  e2 == heap.cat["B"][iloc]
              IN  heap.ev[e2].id \in Range(keys) =>
                      LET e1 == heap.cat["A"][Index(keys, heap.ev[e2].id)]
                      IN  \A o2 \in Range(heap.ev[e2].origins) :
                            \E o1 \in Range(heap.ev[e1].origins) :
                              /\ heap.org[o1].id = heap.org[o2].id
                              /\ \A m \in Range(MagnitudesOf(heap, o2)) :
                                   \E m1 \in Range(MagnitudesOf(heap, o1)) :
                                      SameMetadata(m1, m)
        /\ \A i \in 1..Len(pre.cat["A"]) :
              IsPrefix(pre.ev[pre.cat["A"][i]].origins,
                       heap.ev[pre.cat["A"][i]].origins)

(* A merge returned that appended an origin to an event of the primary     *)
(* and appended a magnitude to an origin that had one.                     *)
C5_Witness ==
    /\ Merged /\ status = "ok"
    /\ \E i \in 1..Len(pre.cat["A"]) :
          Len(heap.ev[pre.cat["A"][i]].origins)
              > Len(pre.ev[pre.cat["A"][i]].origins)
    /\ \E o \in OriginsIn(pre, "A") :
          /\ Len(MagnitudesOf(pre, o)) > 0
          /\ Len(MagnitudesOf(heap, o)) > Len(MagnitudesOf(pre, o))

----------------------------------------------------------------------------
(* Properties of the reader.                                               *)

(* The step finalizes the pending event: an Event header after the first,  *)
(* or the end of the input.                                                *)
Finalizing ==
    /\ pc = "reading" /\ counter > 0
    /\ (counter' = counter + 1 \/ pc' = "done")

(* The pending event block has origins and magnitudes.                     *)
Assembled == Len(origins) > 0 /\ Len(magnitudes) > 0

(* The pending event as assembled: lists set, magnitudes assigned,         *)
(* comment set.                                                            *)
PendingEvent ==
    [AssignMagnitudesToOrigins(
        [event EXCEPT !.origins = origins, !.magnitudes = magnitudes])
     EXCEPT !.comment = comment_str]

Accepted == reader.catalogue.events
Rejected == reader.rejected_catalogue.events

(* The configured magnitude window: None is no bound, a number (0 too) is  *)
(* a bound.                                                                *)
InWindow(v) ==
    /\ (args.lower_magnitude = None \/ v >= args.lower_magnitude[1])
    /\ (args.upper_magnitude = None \/ v <= args.upper_magnitude[1])

(* The configured box, the whole globe when none is.                       *)
Box == IF args.bbox = <<>> THEN <<-180, -90, 180, 90>> ELSE args.bbox

InBox(location) ==
    /\ Box[1] <= location.longitude /\ location.longitude <= Box[3]
    /\ Box[2] <= location.latitude /\ location.latitude <= Box[4]

(* The accumulated comment holds a configured keyword, whatever the case.  *)
KeywordInComment ==
    \E k \in 1..Len(args.rejection_keywords) :
        Contains(LowerStr(comment_str), LowerStr(args.rejection_keywords[k]))

(* C4: no origin of an event the reader produced holds two magnitudes of   *)
(* equal (origin id, author, scale) and values further apart than the      *)
(* tolerance.                                                              *)
C4_NoConflictKept ==
    \A ev \in Range(Accepted) \cup Range(Rejected) :
        \A o \in Range(ev.origins) : ~Conflict(o.magnitudes, o.magnitudes)

(* C6: when an assembled event that passes the magnitude and the location  *)
(* check and whose comment holds a keyword is finalized, the catalogue is  *)
(* left as it is and the event is appended, once, to the rejected          *)
(* collection; nothing else changes that collection during the parse; and  *)
(* when read_file has returned the collection is the catalogue             *)
(* (identifier + "-R", name + " - Rejected") exactly if it is not empty.   *)
C6_KeywordRejected ==
    /\ [][(Finalizing /\ Assembled
              /\ ValidMagnitude(reader, PendingEvent)
              /\ ValidLocation(reader, PendingEvent)
              /\ KeywordInComment)
            => /\ reader'.catalogue.events = Accepted
               /\ reader'.rejected_catalogue.events
                    = Append(Rejected, PendingEvent)]_vars
    /\ [][(pc = "reading"
              /\ ~(Finalizing /\ Assembled
                     /\ ValidMagnitude(reader, PendingEvent)
                     /\ ValidLocation(reader, PendingEvent)
                     /\ KeywordInComment))
            => reader'.rejected_catalogue.events = Rejected]_vars
    /\ [](pc = "reading" => reader.rejected_catalogue.type = "list")
    /\ [](pc = "done" =>
            reader.rejected_catalogue =
                IF Len(Rejected) > 0
                THEN ISFCatalogue("ISC-R", "Bulletin - Rejected", Rejected)
                ELSE EventList(<<>>))

(* read_file returned one accepted event and, wrapped, one event rejected  *)
(* for a comment that matches the keyword in another case.                 *)
C6_Witness ==
    /\ pc = "done"
    /\ Len(Accepted) = 1
    /\ reader.rejected_catalogue.type = "ISFCatalogue"
    /\ Len(Rejected) = 1
    /\ Rejected[1].comment = <<"A", "b", "\n">>
    /\ args.rejection_keywords = << <<"a", "b">> >>

(* C7: every event of the catalogue has a magnitude inside the configured  *)
(* window.                                                                 *)
C7_AcceptedInsideWindow ==
    \A ev \in Range(Accepted) :
        \E m \in Range(ev.magnitudes) : InWindow(m.value)

(* C8: every event of the catalogue has an origin inside the configured    *)
(* box, bounds included, or inside the globe when no box is configured;    *)
(* and an assembled event with such an origin that passes the magnitude    *)
(* and keyword checks is appended to the catalogue, so that without a box  *)
(* no event is excluded by location.                                       *)
C8_AcceptedInsideBox ==
    /\ [](\A ev \in Range(Accepted) :
             \E o \in Range(ev.origins) : InBox(o.location))
    /\ [][(Finalizing /\ Assembled
              /\ ValidMagnitude(reader, PendingEvent)
              /\ ~KeywordInComment
              /\ (args.bbox = <<>>
                    \/ \E o \in Range(origins) : InBox(o.location)))
            => Len(reader'.catalogue.events) = Len(Accepted) + 1]_vars

(* The catalogue of a reader with a box holds an event with an origin      *)
(* outside the box and an origin on its border.                            *)
C8_Witness ==
    /\ pc = "done"
    /\ args.bbox = <<0, 0, 20, 20>>
    /\ \E ev \in Range(Accepted) :
          /\ \E o \in Range(ev.origins) : ~InBox(o.location)
          /\ \E o \in Range(ev.origins) :
                o.location = [longitude |-> 20, latitude |-> 0]

(* C9: every event of the catalogue and of the rejected collection has an  *)
(* origin and a magnitude, and finalizing a block without origins or       *)
(* without magnitudes changes neither collection.                          *)
C9_EmptyBlockDiscarded ==
    /\ [](\A ev \in Range(Accepted) \cup Range(Rejected) :
             Len(ev.origins) > 0 /\ Len(ev.magnitudes) > 0)
    /\ [][(Finalizing /\ ~Assembled)
            => /\ reader'.catalogue.events = Accepted
               /\ reader'.rejected_catalogue.events = Rejected]_vars

(* The second Event header has been read after a first block with an       *)
(* origin and with magnitude rows that the allow-list filtered out all,    *)
(* and both collections are empty.                                         *)
C9_Witness ==
    /\ pc = "reading" /\ counter = 2
    /\ origins = <<>> /\ used.origin > 0 /\ used.magnitude = 0
    /\ used.filtered = {"magnitude"}
    /\ Accepted = <<>> /\ Rejected = <<>>

(* What a marker line may change while an event is pending: the flag of    *)
(* the last origin of the pending event and nothing else.                  *)
MarkerFrame(flag) ==
    /\ reader' = reader /\ pc' = pc /\ counter' = counter
    /\ is_origin' = is_origin /\ is_magnitude' = is_magnitude
    /\ event' = event /\ magnitudes' = magnitudes
    /\ comment_str' = comment_str
    /\ Len(origins') = Len(origins)
    /\ \A k \in 1..Len(origins) :
          origins'[k] = IF k < Len(origins)
                        THEN origins[k]
                        ELSE IF flag = "is_prime"
                        THEN [origins[k] EXCEPT !.is_prime = TRUE]
                        ELSE [origins[k] EXCEPT !.is_centroid = TRUE]

(* C10: reading a "(#PRIME)" line while an event is pending sets is_prime  *)
(* on the last origin of that event and changes nothing else: no other     *)
(* origin, no event of the catalogue, not the section state, and nothing   *)
(* at all when the event has no origin yet.  The same for "(#CENTROID)"    *)
(* and is_centroid.                                                        *)
C10_MarkerFlagsLastOrigin ==
    /\ [][(counter > 0 /\ ReadLine(PrimeRow)) => MarkerFrame("is_prime")]_vars
    /\ [][(counter > 0 /\ ReadLine(CentroidRow))
            => MarkerFrame("is_centroid")]_vars

(* The pending event has two origins of which only the last is prime and   *)
(* only the first is a centroid, after an event whose origin has no flag.  *)
C10_Witness ==
    /\ pc = "reading"
    /\ Len(Accepted) = 1
    /\ ~Accepted[1].origins[1].is_prime
    /\ Len(origins) = 2
    /\ ~origins[1].is_prime /\ origins[2].is_prime
    /\ origins[1].is_centroid /\ ~origins[2].is_centroid

(* C11: a prime or centroid marker read right after an origin row that     *)
(* yielded no origin (its author is not in the allow-list) flags no origin *)
(* at all: the origins of the pending event are left as they are.          *)
C11_MarkerAfterFilteredRow ==
    [][(counter > 0 /\ used.last_filtered
           /\ (ReadLine(PrimeRow) \/ ReadLine(CentroidRow)))
         => origins' = origins]_vars

(* The pending event as the catalogue holds it when it is accepted.        *)
PendingAccepted ==
    IF reader.store_comments
    THEN PendingEvent
    ELSE [PendingEvent EXCEPT !.comment = <<>>]

(* What becomes of the pending event when it is finalized.                 *)
PendingOutcome ==
    IF ~Assembled THEN "discarded"
    ELSE IF ~ValidMagnitude(reader, PendingEvent) THEN "filtered"
    ELSE IF ~ValidLocation(reader, PendingEvent) THEN "filtered"
    ELSE IF KeywordInComment THEN "rejected"
    ELSE "accepted"

(* C12: while a file with an Event header is read, the pending event is    *)
(* the event of the last header; it is finalized by the step that reads    *)
(* the next header or reaches the end of the input, by the same rule in    *)
(* both cases (appended to the catalogue, appended to the rejected         *)
(* collection, or dropped); no other step changes the two collections; so  *)
(* the collections never hold more events than headers were finalized.     *)
C12_FinalizedOnce ==
    /\ []((pc = "reading" /\ counter > 0) =>
            /\ counter = Len(used.headers)
            /\ event.id = used.headers[counter]
            /\ Len(Accepted) + Len(Rejected) <= counter - 1)
    /\ [](pc = "done" =>
            Len(Accepted) + Len(Rejected) <= Len(used.headers))
    /\ [][Finalizing =>
            /\ reader'.catalogue.events =
                 IF PendingOutcome = "accepted"
                 THEN Append(Accepted, PendingAccepted) ELSE Accepted
            /\ reader'.rejected_catalogue.events =
                 IF PendingOutcome = "rejected"
                 THEN Append(Rejected, PendingEvent) ELSE Rejected]_vars
    /\ [][(pc = "reading" /\ ~Finalizing) =>
            /\ reader'.catalogue.events = Accepted
            /\ reader'.rejected_catalogue.events = Rejected]_vars
    /\ [][(pc = "reading" /\ counter > 0 /\ pc' = "done") =>
            Len(used'.headers) = counter]_vars

(* read_file returned after two headers: the first event is in the         *)
(* catalogue and the last, finalized at the end of the input, is in the    *)
(* rejected collection.                                                    *)
C12_Witness ==
    /\ pc = "done"
    /\ used.headers = <<"e1", "e2">>
    /\ Len(Accepted) = 1 /\ Accepted[1].id = "e1"
    /\ Len(Rejected) = 1 /\ Rejected[1].id = "e2"

(* C13: when the end of the input is reached and no Event header was read, *)
(* read_file returns, and the catalogue it returns has no events.          *)
C13_NoHeaderReturnsEmpty ==
    [][(pc = "reading" /\ counter = 0 /\ EndOfFile)
         => (pc' = "done" /\ reader'.catalogue.events = <<>>)]_vars

(* C14: no line makes read_file raise: reading a line, whatever the line   *)
(* and wherever it stands in the file, leaves read_file in its loop.       *)
C14_NeverAborts ==
    [][(\E row \in RowsOf(family) : ReadLine(row)) => pc' = "reading"]_vars

(* C15: the constructor only returns a reader when the configuration is    *)
(* valid: its two magnitude bounds, when both are numbers (0 is one), do   *)
(* not have the upper below the lower, and its box has no or four values.  *)
C15_InvalidConfigurationRejected ==
    pc # "AssertionError" =>
        /\ ~(/\ args.lower_magnitude # None
             /\ args.upper_magnitude # None
             /\ args.upper_magnitude[1] < args.lower_magnitude[1])
        /\ Len(args.bbox) \in {0, 4}

(* In the assembled event ev, an origin holds a magnitude of the event     *)
(* exactly if the magnitude carries the id of the origin.                  *)
AssignedById(ev) ==
    \A m \in Range(ev.magnitudes), o \in Range(ev.origins) :
        (m \in Range(o.magnitudes)) <=> (o.id = m.origin_id)

(* C16: in every event block the reader assembles, and so in every event   *)
(* of the catalogue and of the rejected collection, each magnitude of the  *)
(* event is in the list of every origin of the event that has the          *)
(* magnitude's origin id, and in the list of no other origin: a magnitude  *)
(* whose origin id no origin of the event has is in no list.               *)
C16_MagnitudesAssignedById ==
    /\ (pc = "reading" /\ counter > 0 /\ Assembled) => AssignedById(PendingEvent)
    /\ \A ev \in Range(Accepted) \cup Range(Rejected) : AssignedById(ev)

(* The catalogue holds an event with a magnitude assigned to its origin    *)
(* and a magnitude of an origin that the allow-list filtered out, held by  *)
(* no origin.                                                              *)
C16_Witness ==
    /\ pc = "done"
    /\ args.selected_origin_agencies = {"ISC"}
    /\ \E ev \in Range(Accepted) :
          /\ \E m \in Range(ev.magnitudes) :
                /\ \A o \in Range(ev.origins) : o.id # m.origin_id
                /\ \A o \in Range(ev.origins) : m \notin Range(o.magnitudes)
          /\ \E o \in Range(ev.origins) : Len(o.magnitudes) > 0

(* C17: in every event the reader produced, each magnitude of the event is *)
(* held by at most one origin of the event, and an origin holds it no more *)
(* often than the event does.                                              *)
C17_ManyToOne ==
    \A ev \in Range(Accepted) \cup Range(Rejected) :
        \A k \in 1..Len(ev.magnitudes) :
            /\ Cardinality({j \in 1..Len(ev.origins) :
                   ev.magnitudes[k] \in Range(ev.origins[j].magnitudes)}) <= 1
            /\ \A j \in 1..Len(ev.origins) :
                   Count(ev.origins[j].magnitudes, ev.magnitudes[k])
                       <= Count(ev.magnitudes, ev.magnitudes[k])

(* C18: when the origin allow-list is not empty every origin of every      *)
(* event of the catalogue and of the rejected collection has an author of  *)
(* the list, and likewise every magnitude for the magnitude allow-list;    *)
(* with an empty list every origin row read as such in the origin section  *)
(* (every magnitude row with a value read as such in the magnitude         *)
(* section) of a pending event is appended.                                *)
C18_AllowListsHold ==
    /\ [](\A ev \in Range(Accepted) \cup Range(Rejected) :
            /\ args.selected_origin_agencies # {} =>
                  \A o \in Range(ev.origins) :
                      o.author \in args.selected_origin_agencies
            /\ args.selected_magnitude_agencies # {} =>
                  /\ \A m \in Range(ev.magnitudes) :
                        m.author \in args.selected_magnitude_agencies
                  /\ \A o \in Range(ev.origins) :
                        \A m \in Range(o.magnitudes) :
                            m.author \in args.selected_magnitude_agencies)
    /\ [][(counter > 0 /\ is_origin /\ args.selected_origin_agencies = {}
              /\ \E row \in RowsOf(family) :
                    /\ row.form = "origin" /\ CommentFind(row) = None
                    /\ ReadLine(row))
            => Len(origins') = Len(origins) + 1]_vars
    /\ [][(counter > 0 /\ is_magnitude
              /\ args.selected_magnitude_agencies = {}
              /\ \E row \in RowsOf(family) :
                    /\ row.form = "magnitude" /\ CommentFind(row) = None
                    /\ row.value # None
                    /\ ReadLine(row))
            => Len(magnitudes') = Len(magnitudes) + 1]_vars

(* read_file returned an event from a file of one block in which both      *)
(* allow-lists filtered a row out.                                         *)
C18_Witness ==
    /\ pc = "done"
    /\ args.selected_origin_agencies = {"ISC"}
    /\ args.selected_magnitude_agencies = {"ISC"}
    /\ used.filtered = {"origin", "magnitude"}
    /\ Len(used.headers) = 1
    /\ Len(Accepted) = 1

(* s is t with some of its elements taken out.                             *)
RECURSIVE IsSubsequence(_, _)
IsSubsequence(s, t) ==
    IF s = <<>> THEN TRUE
    ELSE IF t = <<>> THEN FALSE
    ELSE IF Head(s) = Head(t) THEN IsSubsequence(Tail(s), Tail(t))
    ELSE IsSubsequence(s, Tail(t))

IdsOf(events) == [k \in 1..Len(events) |-> events[k].id]

(* The ids of the Event headers whose events have been finalized.          *)
FinalizedHeaders ==
    IF pc = "reading" /\ counter > 0
    THEN SubSeq(used.headers, 1, Len(used.headers) - 1)
    ELSE used.headers

(* C19: the ids of the events of the catalogue, in the order of the        *)
(* catalogue, are the ids of the finalized headers in the order of the     *)
(* file with some of them taken out, and the same for the rejected         *)
(* collection; and reading further only appends to either collection.      *)
C19_HeaderOrderKept ==
    /\ [](/\ IsSubsequence(IdsOf(Accepted), FinalizedHeaders)
          /\ IsSubsequence(IdsOf(Rejected), FinalizedHeaders))
    /\ [][pc = "reading" =>
            /\ IsPrefix(Accepted, reader'.catalogue.events)
            /\ IsPrefix(Rejected, reader'.rejected_catalogue.events)]_vars

(* read_file returned the events of the headers "e2" and "e1" in the order *)
(* of the file.                                                            *)
C19_Witness ==
    /\ pc = "done"
    /\ used.headers = <<"e2", "e1">>
    /\ IdsOf(Accepted) = <<"e2", "e1">>

(* C20: an assembled event that fails the magnitude check or the location  *)
(* check is recorded in neither collection when it is finalized, whatever  *)
(* its comment holds; and the rejected collection only ever changes for an *)
(* event that passed both checks and whose comment holds a keyword.        *)
C20_ChecksInOrder ==
    /\ [][(Finalizing /\ Assembled
              /\ (~ValidMagnitude(reader, PendingEvent)
                    \/ ~ValidLocation(reader, PendingEvent)))
            => /\ reader'.catalogue.events = Accepted
               /\ reader'.rejected_catalogue.events = Rejected]_vars
    /\ [][(pc = "reading" /\ reader'.rejected_catalogue.events # Rejected)
            => /\ ValidMagnitude(reader, PendingEvent)
               /\ ValidLocation(reader, PendingEvent)
               /\ KeywordInComment]_vars

(* The second Event header has been read after a block of one origin, one  *)
(* magnitude and a comment line with the keyword, read by a reader with a  *)
(* box and a keyword, and both collections are empty: the event failed the *)
(* location check and was not recorded as rejected.                        *)
C20_Witness ==
    /\ pc = "reading" /\ counter = 2
    /\ family = "failing" /\ args.bbox = <<0, 0, 20, 20>>
    /\ used.origin = 1 /\ used.magnitude = 1 /\ used.comment = 1
    /\ origins = <<>> /\ magnitudes = <<>> /\ comment_str = <<>>
    /\ Accepted = <<>> /\ Rejected = <<>>

(* C21: after an Event header line no line is parsed as an origin row or   *)
(* as a magnitude row until a section header line has been read: a line   *)
(* of 136 or of 38 characters that directly follows an Event header is    *)
(* dropped, it changes neither the origin list nor the magnitude list.    *)
C21_RowAfterHeaderDropped ==
    [][(counter > 0 /\ used.after_header
           /\ \E row \in RowsOf(family) :
                 row.form \in {"origin", "magnitude"} /\ ReadLine(row))
         => (origins' = origins /\ magnitudes' = magnitudes)]_vars

(* C22: only a line that is nothing but a parenthesized comment is taken   *)
(* as a comment: every line that begins with "Event" starts a new event,   *)
(* whatever its description holds, and in the origin section every origin  *)
(* row is parsed as an origin row, whether or not it holds parentheses.    *)
C22_OnlyCommentLinesAreComments ==
    /\ [][(\E row \in RowsOf(family) : row.form = "event" /\ ReadLine(row))
            => (counter' = counter + 1 /\ comment_str' = <<>>)]_vars
    /\ [][\A row \in RowsOf(family) :
            (counter > 0 /\ is_origin /\ row.form = "origin" /\ ReadLine(row))
                => /\ comment_str' = comment_str
                   /\ origins' = origins \o GetEventOriginRow(
                                     row, reader.selected_origin_agencies)]_vars

(* C23: a line that is not blank, boilerplate, a marker, a comment, an     *)
(* Event header or a section header, and whose length is not the one of   *)
(* the active section (any length while no section is active), is         *)
(* dropped: reading it changes neither the section state, nor the current *)
(* event, the origin list, the magnitude list, the comment buffer, the    *)
(* catalogue or the rejected collection, and the parse goes on.           *)
C23_OtherLinesDropped ==
    [][\A row \in RowsOf(family) :
         (/\ row.form \in {"origin", "magnitude", "other"}
          /\ CommentFind(row) = None
          /\ ~(is_magnitude /\ RowLen(row) = MagnitudeRowLen)
          /\ ~(is_origin /\ RowLen(row) = OriginRowLen)
          /\ ReadLine(row))
            => /\ UNCHANGED <<is_origin, is_magnitude, counter, event,
                              origins, magnitudes, comment_str, reader, pc>>
               /\ used'.dropped = Some(RowLen(row))]_vars

(* In the magnitude section of an event that has an origin and a magnitude *)
(* a line of 136 characters has just been dropped.                         *)
C23_Witness ==
    /\ pc = "reading"
    /\ is_magnitude
    /\ Len(origins) > 0 /\ Len(magnitudes) > 0
    /\ used.dropped = Some(OriginRowLen)

----------------------------------------------------------------------------
(* Further properties of the merge engine.                                 *)

(* C24: every call of merge_second_catalogue returns or raises: none runs  *)
(* for ever, also when the secondary shares objects with the primary       *)
(* after an earlier merge.                                                 *)
C24_MergeTerminates == status # "diverged"

(* What a catalogue holds in the object graph h: for every event its id,   *)
(* and for every origin of the event its id and its list of magnitudes.    *)
Contents(h, c) ==
    [i \in 1..Len(h.cat[c]) |->
        [id |-> h.ev[h.cat[c][i]].id,
         origins |->
            [j \in 1..Len(h.ev[h.cat[c][i]].origins) |->
                [id |-> h.org[h.ev[h.cat[c][i]].origins[j]].id,
                 magnitudes |->
                    MagnitudesOf(h, h.ev[h.cat[c][i]].origins[j])]]]]

(* No origin of catalogue c holds two magnitudes in conflict.              *)
NoInternalConflict(h, c) ==
    \A o \in OriginsIn(h, c) :
        ~Conflict(MagnitudesOf(h, o), MagnitudesOf(h, o))

(* C25: merging is idempotent: when B was merged into A and neither        *)
(* catalogue holds a conflict, a second merge of B that returns leaves    *)
(* every event of A with the same origins and every origin with the same  *)
(* sequence of magnitudes.                                                 *)
C25_MergeIdempotent ==
    (/\ nmerges = 2 /\ status = "ok"
     /\ NoInternalConflict(pre, "A") /\ NoInternalConflict(pre, "B"))
        => Contents(heap, "A") = Contents(pre, "A")

(* C26: a merge that returns leaves the secondary catalogue as it was      *)
(* before the call: the events of B, the origins of every event of B and  *)
(* the magnitudes of every origin of B.                                    *)
C26_SecondaryUnchanged ==
    (Merged /\ status = "ok") => Contents(heap, "B") = Contents(pre, "B")

(* The magnitudes of the event's own list in h.                            *)
EventMagnitudes(h, e) == Range(h.ev[e].magnitudes)

(* C27: after a merge that returns, every magnitude in the list of an     *)
(* origin of an event of the primary catalogue is in the magnitude list   *)
(* of that event.                                                          *)
C27_OriginMagnitudesInEvent ==
    (Merged /\ status = "ok") =>
        \A i \in 1..Len(heap.cat["A"]) :
            \A o \in Range(heap.ev[heap.cat["A"][i]].origins) :
                Range(MagnitudesOf(heap, o))
                    \subseteq EventMagnitudes(heap, heap.cat["A"][i])

(* C28: a merge that raises the data-integrity error leaves the primary    *)
(* catalogue as it was before the call.                                    *)
C28_FailedMergeChangesNothing ==
    (Merged /\ status = "ValueError")
        => Contents(heap, "A") = Contents(pre, "A")

----------------------------------------------------------------------------
(* Further properties of the reader.                                       *)

(* C29: read_file can be called again on a reader: no call fails on the    *)
(* collection of rejected events that an earlier call left in the reader.  *)
C29_RereadDoesNotFail == pc # "AttributeError"

----------------------------------------------------------------------------
(* Properties of the downloader.                                           *)

(* The blocks of CatBlock that cover the year y.                           *)
BlocksOf(y) ==
    {k \in 1..Len(CatBlock) : CatBlock[k][1] <= y /\ y <= CatBlock[k][2]}

(* C30: when GetCatalogue with SplitYears > 0 writes its file, every year  *)
(* from the StartYear to the EndYear that were asked for lies in exactly   *)
(* one of the blocks downloaded, and the blocks follow each other.         *)
C30_BlocksCoverEveryYear ==
    (dpc = "written" /\ SplitYears > 0) =>
        /\ \A y \in StartYear..EndYear : Cardinality(BlocksOf(y)) = 1
        /\ \A k \in 1..(Len(CatBlock) - 1) :
              CatBlock[k + 1][1] = CatBlock[k][2] + 1

====
